---- MODULE Spec2Model ----
(***************************************************************************)
(* Rewards tree generator, ruleset v9/v10 with rolling record support      *)
(* (shared/services/rewards/generator-impl-v9-v10-rolling.go).             *)
(*                                                                         *)
(* One behaviour is one run of generateTree (or of                         *)
(* approximateStakerShareOfSmoothingPool) on one generator object.  The    *)
(* snapshot, the rolling record and the answers of the execution and       *)
(* beacon clients are chosen in Init and never change.  big.Int amounts    *)
(* are unbounded integers; the fixed-point unit oneEth is scaled from 1e18 *)
(* down to 100 so that every product stays inside TLC's integer range,     *)
(* and the other fixed-point constants are scaled with it.                 *)
(***************************************************************************)
EXTENDS Integers, Sequences, FiniteSets, TLC

\* ------------------------------------------------------------------ bounds
NumNodes == 2
NumMinipools == 2
MaxNetwork == 1

Nodes == 1..NumNodes
Minipools == 1..NumMinipools
Networks == 0..MaxNetwork

\* ------------------------------------------------- fixed-point constants
oneEth == 100
tenEth == 10 * oneEth
pointOneEth == oneEth \div 10
pointOhFourEth == (4 * oneEth) \div 100
fourteenPercentEth == (14 * oneEth) \div 100
thirtyTwoEth == 32 * oneEth

\* Time of the snapshot block (elSnapshotHeader.Time) and the interval
\* duration (NetworkDetails.IntervalDuration), in seconds.
SnapshotTime == 5
IntervalDuration == 3

VARIABLES
    networkState,            \* r.networkState (read-only snapshot)
    rollingRecord,           \* r.rollingRecord (read-only)
    rp,                      \* answers of the RewardsExecutionClient
    bc,                      \* answers of the RewardsBeaconClient
    rewardsFile,             \* r.rewardsFile
    minipoolPerformanceFile, \* r.minipoolPerformanceFile
    validNetworkCache,       \* r.validNetworkCache
    epsilon,                 \* r.epsilon
    smoothingPoolBalance,    \* r.smoothingPoolBalance
    nodeDetails,             \* r.nodeDetails
    minipoolInfos,           \* the *MinipoolInfo objects nodeDetails points to
    invalidNetworkNodes,     \* r.invalidNetworkNodes
    nodeRewards,             \* r.nodeRewards
    networkRewards,          \* r.networkRewards
    pDaoRewards,             \* local of calculateRplRewards
    pc,                      \* position of the run
    entry,                   \* which entry point was called
    i,                       \* index of the slice loop in progress
    visited,                 \* keys already visited by the map loop in progress
    result,                  \* value returned to the caller (<<>> is nil)
    err,                     \* error returned to the caller ("" is nil)
    networkEnabledQueries,   \* number of rp.GetNetworkEnabled calls per id
    validateNetworkReturns,  \* booleans validateNetwork returned per id
    cheaters,                \* local of calculateNodeRewards
    poolStakerETH,           \* local of calculateEthRewards
    nodeOpEth,               \* local of calculateEthRewards
    previousResult           \* what an earlier run on the same inputs returned

inputs == <<networkState, rollingRecord, rp, bc>>
accum == <<invalidNetworkNodes, nodeRewards, networkRewards>>
ethState == <<smoothingPoolBalance, nodeDetails, minipoolInfos,
              minipoolPerformanceFile, cheaters, poolStakerETH, nodeOpEth>>
netState == <<validNetworkCache, networkEnabledQueries, validateNetworkReturns>>
vars == <<networkState, rollingRecord, rp, bc, rewardsFile,
          minipoolPerformanceFile, validNetworkCache, epsilon,
          smoothingPoolBalance, nodeDetails, minipoolInfos,
          invalidNetworkNodes, nodeRewards, networkRewards, pDaoRewards,
          pc, entry, i, visited, result, err, networkEnabledQueries,
          validateNetworkReturns, cheaters, poolStakerETH, nodeOpEth,
          previousResult>>

\* --------------------------------------------------------------- helpers
EmptyMap == << >>

RECURSIVE SumOver(_, _)
SumOver(f, S) ==
    IF S = {} THEN 0
    ELSE LET x == CHOOSE y \in S : TRUE
         IN f[x] + SumOver(f, S \ {x})

Abs(x) == IF x < 0 THEN -x ELSE x


\* ssz_types.NewNodeReward / ssz_types.NewNetworkReward
NewNodeReward(network, address) ==
    [Address |-> address, Network |-> network, CollateralRpl |-> 0,
     OracleDaoRpl |-> 0, SmoothingPoolEth |-> 0]

NewNetworkReward(network) ==
    [Network |-> network, CollateralRpl |-> 0, OracleDaoRpl |-> 0,
     SmoothingPoolEth |-> 0]

ZeroTotalRewards ==
    [ProtocolDaoRpl |-> 0, TotalCollateralRpl |-> 0, TotalOracleDaoRpl |-> 0,
     TotalSmoothingPoolEth |-> 0, PoolStakerSmoothingPoolEth |-> 0,
     NodeOperatorSmoothingPoolEth |-> 0, TotalNodeWeight |-> 0]

\* m[k] = v, as a Go map assignment
Put(m, k, v) == [x \in DOMAIN m \cup {k} |-> IF x = k THEN v ELSE m[x]]

Range(s) == {s[k] : k \in DOMAIN s}

\* ------------------------------------------------------------ getCheaters
\* networkState.MinipoolDetailsByNode[addr]: the node's minipools, in
\* snapshot order
MinipoolDetailsByNode(ns, addr) ==
    SelectSeq(ns.MinipoolDetails, LAMBDA mpd : mpd.NodeAddress = addr)

\* the inner loop of getCheaters, from position k: stops at the first
\* minipool with three or more penalties
\* variant: the threshold compared with > instead of >=
RECURSIVE hasMoreThanThreePenalties(_, _)
hasMoreThanThreePenalties(mpds, k) ==
    IF k > Len(mpds) THEN FALSE
    ELSE IF mpds[k].PenaltyCount > 3 THEN TRUE
    ELSE hasMoreThanThreePenalties(mpds, k + 1)

RECURSIVE hasThreePenalties(_, _)
hasThreePenalties(mpds, k) ==
    IF k > Len(mpds) THEN FALSE
    ELSE IF mpds[k].PenaltyCount >= 3 THEN TRUE
    ELSE hasThreePenalties(mpds, k + 1)

\* variant: a node is a cheater only when all of its minipools have three or
\* more penalties
getCheatersAllMinipools(ns) ==
    {ns.NodeDetails[n].NodeAddress : n \in
        {k \in DOMAIN ns.NodeDetails :
            LET mpds == MinipoolDetailsByNode(ns, ns.NodeDetails[k].NodeAddress)
            IN /\ mpds # << >>
               /\ \A j \in DOMAIN mpds : mpds[j].PenaltyCount >= 3}}

getCheaters(ns) ==
    {ns.NodeDetails[n].NodeAddress : n \in
        {k \in DOMAIN ns.NodeDetails :
            hasThreePenalties(
                MinipoolDetailsByNode(ns, ns.NodeDetails[k].NodeAddress), 1)}}

\* -------------------------------------------------------- validateNetwork
\* The value validateNetwork(network) returns, the cache it leaves behind,
\* and whether it called rp.GetNetworkEnabled.
\* variant: only a valid answer is stored in the cache
validateNetworkCachingValidOnly(network) ==
    IF network \in DOMAIN validNetworkCache
    THEN [valid |-> validNetworkCache[network], err |-> FALSE,
          cache |-> validNetworkCache, queried |-> FALSE]
    ELSE IF rp.GetNetworkEnabled[network] = "error"
    THEN [valid |-> FALSE, err |-> TRUE,
          cache |-> validNetworkCache, queried |-> TRUE]
    ELSE [valid |-> rp.GetNetworkEnabled[network] = "enabled", err |-> FALSE,
          cache |-> IF rp.GetNetworkEnabled[network] = "enabled"
                    THEN Put(validNetworkCache, network, TRUE)
                    ELSE validNetworkCache,
          queried |-> TRUE]

validateNetwork(network) ==
    IF network \in DOMAIN validNetworkCache
    THEN [valid |-> validNetworkCache[network], err |-> FALSE,
          cache |-> validNetworkCache, queried |-> FALSE]
    ELSE IF rp.GetNetworkEnabled[network] = "error"
    THEN [valid |-> FALSE, err |-> TRUE,
          cache |-> validNetworkCache, queried |-> TRUE]
    ELSE [valid |-> rp.GetNetworkEnabled[network] = "enabled", err |-> FALSE,
          cache |-> Put(validNetworkCache, network,
                        rp.GetNetworkEnabled[network] = "enabled"),
          queried |-> TRUE]

\* ------------------------------------------- crediting one contribution
\* The block the three allocation loops share: look the node's entry up,
\* create it on a miss (resolving its network through validateNetwork),
\* add the amount to the node entry's field and to the same field of the
\* entry of the node's network.
NodeEntryFails(address, network) ==
    /\ address \notin DOMAIN nodeRewards
    /\ validateNetwork(network).err

NetStateAfter(address, network) ==
    IF address \in DOMAIN nodeRewards
    THEN netState
    ELSE LET v == validateNetwork(network)
         IN <<v.cache,
              IF v.queried
              THEN [networkEnabledQueries EXCEPT ![network] = @ + 1]
              ELSE networkEnabledQueries,
              IF v.err
              THEN validateNetworkReturns
              ELSE [validateNetworkReturns EXCEPT
                       ![network] = @ \cup {v.valid}]>>

\* variant: a network entry created by the contribution is stored without
\* the amount
AccumAfterNewNetworkUncredited(address, network, field, amount) ==
    LET exists == address \in DOMAIN nodeRewards
        v == validateNetwork(network)
        resolved == IF v.valid THEN network ELSE 0
        invalid == IF ~exists /\ ~v.valid
                   THEN Put(invalidNetworkNodes, address, network)
                   ELSE invalidNetworkNodes
        withNode == IF exists THEN nodeRewards
                    ELSE Put(nodeRewards, address,
                             NewNodeReward(resolved, address))
        layer == withNode[address].Network
    IN <<invalid,
         [withNode EXCEPT ![address][field] = @ + amount],
         IF layer \in DOMAIN networkRewards
         THEN [networkRewards EXCEPT ![layer][field] = @ + amount]
         ELSE Put(networkRewards, layer, NewNetworkReward(layer))>>

\* variant: the node entry keeps the network the node asked for even when
\* that network is not valid
AccumAfterNoRedirect(address, network, field, amount) ==
    LET exists == address \in DOMAIN nodeRewards
        v == validateNetwork(network)
        invalid == IF ~exists /\ ~v.valid
                   THEN Put(invalidNetworkNodes, address, network)
                   ELSE invalidNetworkNodes
        withNode == IF exists THEN nodeRewards
                    ELSE Put(nodeRewards, address,
                             NewNodeReward(network, address))
        layer == withNode[address].Network
        withNetwork == IF layer \in DOMAIN networkRewards THEN networkRewards
                       ELSE Put(networkRewards, layer, NewNetworkReward(layer))
    IN <<invalid,
         [withNode EXCEPT ![address][field] = @ + amount],
         [withNetwork EXCEPT ![layer][field] = @ + amount]>>

AccumAfter(address, network, field, amount) ==
    LET exists == address \in DOMAIN nodeRewards
        v == validateNetwork(network)
        resolved == IF v.valid THEN network ELSE 0
        invalid == IF ~exists /\ ~v.valid
                   THEN Put(invalidNetworkNodes, address, network)
                   ELSE invalidNetworkNodes
        withNode == IF exists THEN nodeRewards
                    ELSE Put(nodeRewards, address,
                             NewNodeReward(resolved, address))
        layer == withNode[address].Network
        withNetwork == IF layer \in DOMAIN networkRewards THEN networkRewards
                       ELSE Put(networkRewards, layer, NewNetworkReward(layer))
    IN <<invalid,
         [withNode EXCEPT ![address][field] = @ + amount],
         [withNetwork EXCEPT ![layer][field] = @ + amount]>>

SetNetState(t) ==
    /\ validNetworkCache' = t[1]
    /\ networkEnabledQueries' = t[2]
    /\ validateNetworkReturns' = t[3]

SetAccum(t) ==
    /\ invalidNetworkNodes' = t[1]
    /\ nodeRewards' = t[2]
    /\ networkRewards' = t[3]

\* ----------------------------------------------------- RPL: pure parts
calculateNodeRplRewards(collateralRewards, nodeWeight, totalNodeWeight) ==
    IF nodeWeight <= 0 THEN 0
    ELSE (collateralRewards * nodeWeight) \div totalNodeWeight

PendingRewards == networkState.NetworkDetails.PendingRPLRewards

\* networkState.CalculateNodeWeights(): the weight of every node and their
\* total, a function of stake and bond that the snapshot carries
CalculateNodeWeights(ns) ==
    [nodeWeights |-> ns.NodeWeights, totalNodeWeight |-> ns.TotalNodeWeight]

\* totalNodeRewards: the collateral budget
TotalNodeRewards ==
    (PendingRewards * networkState.NetworkDetails.NodeOperatorRewardsPercent)
        \div oneEth

\* totalODaoRewards: the oDAO budget
TotalODaoRewards ==
    (PendingRewards
        * networkState.NetworkDetails.TrustedNodeOperatorRewardsPercent)
        \div oneEth

\* trueODaoNodeTimes[address] for the member at position k of the list
participationTime(details) ==
    LET eligibleDuration == SnapshotTime - details.JoinedTime
    IN IF eligibleDuration < IntervalDuration
       THEN eligibleDuration ELSE IntervalDuration

RECURSIVE totalODaoNodeTimeFrom(_, _)
totalODaoNodeTimeFrom(members, k) ==
    IF k > Len(members) THEN 0
    ELSE participationTime(members[k]) + totalODaoNodeTimeFrom(members, k + 1)

TotalODaoNodeTime ==
    totalODaoNodeTimeFrom(networkState.OracleDaoMemberDetails, 1)

\* sum of one field over all entries of a rewards map
FieldSum(m, field) == SumOver([k \in DOMAIN m |-> m[k][field]], DOMAIN m)

\* --------------------------------------------------------- generateTree
\* generateTree up to its call of calculateRplRewards: seeds the network
\* validity cache and sets epsilon
GenerateTree ==
    /\ pc = "new"
    /\ entry' = "generateTree"
    /\ validNetworkCache' = (0 :> TRUE)
    /\ epsilon' = IF Len(networkState.NodeDetails)
                        > Len(networkState.MinipoolDetails)
                  THEN Len(networkState.NodeDetails)
                  ELSE Len(networkState.MinipoolDetails)
    /\ pc' = "calculateRplRewards"
    /\ UNCHANGED <<inputs, rewardsFile, ethState, accum, pDaoRewards, i,
                   visited, result, err, networkEnabledQueries,
                   validateNetworkReturns, cheaters, poolStakerETH, nodeOpEth,
          previousResult>>

\* variant: the error is returned together with what was built so far
FailWithPartialResult(msg) ==
    /\ pc' = "error"
    /\ err' = msg
    /\ result' = <<[RewardsFile |-> rewardsFile,
                    InvalidNetworkNodes |-> invalidNetworkNodes,
                    MinipoolPerformanceFile |-> minipoolPerformanceFile]>>

\* an error return: everything on the call stack returns (nil, err)
Fail(msg) ==
    /\ pc' = "error"
    /\ err' = msg
    /\ result' = << >>

\* ---------------------------------------------------- calculateRplRewards
\* calculateRplRewards up to the collateral loop (or, with no node weight,
\* up to the oDAO loop)
CalculateRplRewards ==
    /\ pc = "calculateRplRewards"
    /\ IF PendingRewards = 0
       THEN /\ Fail("there are no pending RPL rewards")
            /\ UNCHANGED <<rewardsFile, pDaoRewards, i>>
       ELSE LET pDao == (PendingRewards
                    * networkState.NetworkDetails.ProtocolDaoRewardsPercent)
                    \div oneEth
            IN /\ UNCHANGED <<result, err>>
               /\ i' = 1
               /\ IF CalculateNodeWeights(networkState).totalNodeWeight > 0
                  THEN /\ rewardsFile' =
                            [rewardsFile EXCEPT !.TotalRewards.TotalNodeWeight
                                = CalculateNodeWeights(networkState)
                                      .totalNodeWeight]
                       /\ pDaoRewards' = pDao
                       /\ pc' = "collateralLoop"
                  ELSE /\ pDaoRewards' = pDao + TotalNodeRewards
                       /\ pc' = "oDaoLoop"
                       /\ UNCHANGED rewardsFile
    /\ UNCHANGED <<inputs, ethState, accum, netState, epsilon, entry,
                   visited, previousResult>>

\* variant: the collateral loop skips the nodes getCheaters returns
CollateralContributionSkippingCheaters ==
    /\ pc = "collateralLoop"
    /\ i <= Len(networkState.NodeDetails)
    /\ LET nd == networkState.NodeDetails[i]
           w == CalculateNodeWeights(networkState)
           nodeRplRewards == calculateNodeRplRewards(TotalNodeRewards,
                                 w.nodeWeights[nd.NodeAddress],
                                 w.totalNodeWeight)
       IN IF nodeRplRewards > 0 /\ nd.NodeAddress \notin getCheaters(networkState)
          THEN /\ SetNetState(NetStateAfter(nd.NodeAddress, nd.RewardNetwork))
               /\ IF NodeEntryFails(nd.NodeAddress, nd.RewardNetwork)
                  THEN /\ Fail("GetNetworkEnabled")
                       /\ UNCHANGED <<accum, i>>
                  ELSE /\ SetAccum(AccumAfter(nd.NodeAddress, nd.RewardNetwork,
                                           "CollateralRpl", nodeRplRewards))
                       /\ i' = i + 1
                       /\ UNCHANGED <<pc, err, result>>
          ELSE /\ i' = i + 1
               /\ UNCHANGED <<accum, netState, pc, err, result>>
    /\ UNCHANGED <<inputs, rewardsFile, ethState, epsilon, pDaoRewards,
                   entry, visited, previousResult>>

\* one iteration of the collateral loop: node i of the snapshot's list
CollateralContribution ==
    /\ pc = "collateralLoop"
    /\ i <= Len(networkState.NodeDetails)
    /\ LET nd == networkState.NodeDetails[i]
           w == CalculateNodeWeights(networkState)
           nodeRplRewards == calculateNodeRplRewards(TotalNodeRewards,
                                 w.nodeWeights[nd.NodeAddress],
                                 w.totalNodeWeight)
       IN IF nodeRplRewards > 0
          THEN /\ SetNetState(NetStateAfter(nd.NodeAddress, nd.RewardNetwork))
               /\ IF NodeEntryFails(nd.NodeAddress, nd.RewardNetwork)
                  THEN /\ Fail("GetNetworkEnabled")
                       /\ UNCHANGED <<accum, i>>
                  ELSE /\ SetAccum(AccumAfter(nd.NodeAddress, nd.RewardNetwork,
                                           "CollateralRpl", nodeRplRewards))
                       /\ i' = i + 1
                       /\ UNCHANGED <<pc, err, result>>
          ELSE /\ i' = i + 1
               /\ UNCHANGED <<accum, netState, pc, err, result>>
    /\ UNCHANGED <<inputs, rewardsFile, ethState, epsilon, pDaoRewards,
                   entry, visited, previousResult>>

\* the sanity check after the collateral loop
CollateralSanityCheck ==
    /\ pc = "collateralLoop"
    /\ i > Len(networkState.NodeDetails)
    /\ LET totalCalculatedNodeRewards ==
               FieldSum(networkRewards, "CollateralRpl")
           delta == Abs(TotalNodeRewards - totalCalculatedNodeRewards)
       IN IF delta > epsilon
          THEN /\ Fail("error calculating collateral RPL")
               /\ UNCHANGED <<rewardsFile, pDaoRewards, i>>
          ELSE /\ rewardsFile' =
                     [rewardsFile EXCEPT !.TotalRewards.TotalCollateralRpl
                         = totalCalculatedNodeRewards]
               /\ pDaoRewards' = PendingRewards - totalCalculatedNodeRewards
               /\ pc' = "oDaoLoop"
               /\ i' = 1
               /\ UNCHANGED <<result, err>>
    /\ UNCHANGED <<inputs, ethState, accum, netState, epsilon, entry,
                   visited, previousResult>>

\* one iteration of the oDAO loop: member i of the snapshot's list.  The
\* division by a zero total participation time panics.
ODaoContribution ==
    /\ pc = "oDaoLoop"
    /\ i <= Len(networkState.OracleDaoMemberDetails)
    /\ LET details == networkState.OracleDaoMemberDetails[i]
           address == details.Address
           network == networkState.NodeDetails[address].RewardNetwork
       IN IF TotalODaoNodeTime = 0
          THEN /\ pc' = "panic"
               /\ UNCHANGED <<accum, netState, i, err, result>>
          ELSE LET individualOdaoRewards ==
                       (participationTime(details) * TotalODaoRewards)
                           \div TotalODaoNodeTime
               IN /\ SetNetState(NetStateAfter(address, network))
                  /\ IF NodeEntryFails(address, network)
                     THEN /\ Fail("GetNetworkEnabled")
                          /\ UNCHANGED <<accum, i>>
                     ELSE /\ SetAccum(AccumAfter(address, network,
                                     "OracleDaoRpl", individualOdaoRewards))
                          /\ i' = i + 1
                          /\ UNCHANGED <<pc, err, result>>
    /\ UNCHANGED <<inputs, rewardsFile, ethState, epsilon, pDaoRewards,
                   entry, visited, previousResult>>

\* variant: the oDAO totals are recorded without the epsilon check
ODaoSanityCheckSkipped ==
    /\ pc = "oDaoLoop"
    /\ i > Len(networkState.OracleDaoMemberDetails)
    /\ LET totalCalculatedOdaoRewards ==
               FieldSum(networkRewards, "OracleDaoRpl")
       IN /\ pDaoRewards' = pDaoRewards - totalCalculatedOdaoRewards
          /\ rewardsFile' =
                [rewardsFile EXCEPT
                    !.TotalRewards.TotalOracleDaoRpl
                        = totalCalculatedOdaoRewards,
                    !.TotalRewards.ProtocolDaoRpl
                        = pDaoRewards - totalCalculatedOdaoRewards]
          /\ pc' = "calculateEthRewards"
          /\ UNCHANGED <<result, err>>
    /\ UNCHANGED <<inputs, ethState, accum, netState, epsilon, entry, i,
                   visited, previousResult>>

\* the sanity check after the oDAO loop, and the final treasury amount
ODaoSanityCheck ==
    /\ pc = "oDaoLoop"
    /\ i > Len(networkState.OracleDaoMemberDetails)
    /\ LET totalCalculatedOdaoRewards ==
               FieldSum(networkRewards, "OracleDaoRpl")
           delta == Abs(TotalODaoRewards - totalCalculatedOdaoRewards)
       IN IF delta > epsilon
          THEN /\ Fail("error calculating ODao RPL")
               /\ UNCHANGED <<rewardsFile, pDaoRewards>>
          ELSE /\ pDaoRewards' = pDaoRewards - totalCalculatedOdaoRewards
               /\ rewardsFile' =
                     [rewardsFile EXCEPT
                         !.TotalRewards.TotalOracleDaoRpl
                             = totalCalculatedOdaoRewards,
                         !.TotalRewards.ProtocolDaoRpl
                             = pDaoRewards - totalCalculatedOdaoRewards]
               /\ pc' = "calculateEthRewards"
               /\ UNCHANGED <<result, err>>
    /\ UNCHANGED <<inputs, ethState, accum, netState, epsilon, entry, i,
                   visited, previousResult>>

\* ------------------------------------------------ ETH: pure parts
\* a nil pointer, and a pointer to the value v
Nil == << >>
Some(v) == <<v>>

RECURSIVE seqFieldSum(_, _, _)
seqFieldSum(seq, field, k) ==
    IF k > Len(seq) THEN 0
    ELSE seq[k][field] + seqFieldSum(seq, field, k + 1)

\* rollingRecord.GetScores(cheatingNodes): the minipools of the record whose
\* node is not a cheater, with the totals of their scores and of their
\* successful attestations
GetScores(cheatingNodes) ==
    LET minipools == SelectSeq(rollingRecord.Minipools,
                         LAMBDA mp : mp.NodeAddress \notin cheatingNodes)
    IN [minipools |-> minipools,
        totalScore |-> seqFieldSum(minipools, "AttestationScore", 1),
        attestationCount |-> seqFieldSum(minipools, "AttestationCount", 1)]

\* the fee floor of calculateNodeBonuses
feeWithBonus(percentOfBorrowedEth) ==
    LET _min == IF tenEth > percentOfBorrowedEth
                THEN percentOfBorrowedEth ELSE tenEth
    IN ((_min * pointOhFourEth) \div tenEth) + pointOneEth

\* what the body of the inner loop of calculateNodeBonuses does with one
\* minipool of an eligible node
bonusFor(mpi, consensusIncome, floor) ==
    LET bonusShare == ((floor - mpi.NodeFee)
                          * (thirtyTwoEth - mpi.NodeDepositBalance))
                          \div thirtyTwoEth
    IN IF (consensusIncome * bonusShare) \div oneEth < 0 THEN 0
       ELSE (consensusIncome * bonusShare) \div oneEth

\* variant: a base fee equal to the floor still gets a bonus
bonusAgainstFloorStrict(mpd, mpi, floor) ==
    IF ~mpd.IsEligibleForBonuses THEN [kind |-> "none"]
    ELSE IF mpi.NodeFee > floor THEN [kind |-> "none"]
    ELSE IF floor > fourteenPercentEth
    THEN [kind |-> "error", TotalFee |-> floor]
    ELSE [kind |-> "bonus", TotalFee |-> floor,
          MinipoolBonus |-> bonusFor(mpi, mpd.ConsensusIncome[1], floor)]

bonusAgainstFloor(mpd, mpi, floor) ==
    IF ~mpd.IsEligibleForBonuses THEN [kind |-> "none"]
    ELSE IF mpi.NodeFee >= floor THEN [kind |-> "none"]
    ELSE IF floor > fourteenPercentEth
    THEN [kind |-> "error", TotalFee |-> floor]
    ELSE [kind |-> "bonus", TotalFee |-> floor,
          MinipoolBonus |-> bonusFor(mpi, mpd.ConsensusIncome[1], floor)]

minipoolBonus(mpd) ==
    bonusAgainstFloor(mpd, networkState.MinipoolDetails[mpd.Address],
        feeWithBonus(
            networkState.NodeDetails[mpd.NodeAddress].PercentOfBorrowedEth))

\* the writes of calculateNodeBonuses, given the outcome out[a] of the
\* inner loop's body for every minipool a of an eligible node
applyBonuses(nd, mi, out) ==
    [err |-> \E a \in DOMAIN out : out[a].kind = "error",
     totalConsensusBonus |->
        SumOver([a \in DOMAIN out |->
                    IF out[a].kind = "bonus" THEN out[a].MinipoolBonus ELSE 0],
                DOMAIN out),
     minipoolInfos |-> [a \in DOMAIN mi |->
        IF a \notin DOMAIN out THEN mi[a]
        ELSE IF out[a].kind = "none"
        THEN [mi[a] EXCEPT !.MinipoolBonus = Nil, !.ConsensusIncome = Nil]
        ELSE IF out[a].kind = "bonus"
        THEN [mi[a] EXCEPT !.TotalFee = Some(out[a].TotalFee),
                           !.MinipoolBonus = Some(out[a].MinipoolBonus)]
        ELSE [mi[a] EXCEPT !.TotalFee = Some(out[a].TotalFee)]],
     nodeDetails |-> [n \in DOMAIN nd |->
        [nd[n] EXCEPT !.BonusEth = @ +
            SumOver([a \in DOMAIN out |->
                        IF out[a].kind = "bonus"
                        THEN out[a].MinipoolBonus ELSE 0],
                    {a \in DOMAIN out : mi[a].NodeAddress = n})]]]

\* calculateNodeBonuses on the node details nd and the minipool infos mi
calculateNodeBonuses(nd, mi) ==
    applyBonuses(nd, mi,
        [a \in {x \in DOMAIN mi : nd[mi[x].NodeAddress].IsEligible} |->
            minipoolBonus(mi[a])])

\* variant: the bonuses are scaled through the rounded bonus scalar
scaleBonusesByScalar(nd, mi, remainingBalance, totalConsensusBonus) ==
    [panic |-> \E a \in DOMAIN mi : mi[a].MinipoolBonus = Nil,
     bonusScalar |-> (remainingBalance * oneEth) \div totalConsensusBonus,
     nodeDetails |-> [n \in DOMAIN nd |->
        [nd[n] EXCEPT !.BonusEth =
            (@ * ((remainingBalance * oneEth) \div totalConsensusBonus))
                \div oneEth]],
     minipoolInfos |-> [a \in DOMAIN mi |->
        IF mi[a].MinipoolBonus = Nil THEN mi[a]
        ELSE [mi[a] EXCEPT !.MinipoolBonus =
            Some((@[1] * ((remainingBalance * oneEth)
                              \div totalConsensusBonus)) \div oneEth)]]]

\* the scaling of the bonuses when the remaining balance does not cover
\* them; a minipool without a bonus value has a nil MinipoolBonus, and
\* multiplying it panics
scaleBonuses(nd, mi, remainingBalance, totalConsensusBonus) ==
    [panic |-> \E a \in DOMAIN mi : mi[a].MinipoolBonus = Nil,
     bonusScalar |-> (remainingBalance * oneEth) \div totalConsensusBonus,
     nodeDetails |-> [n \in DOMAIN nd |->
        [nd[n] EXCEPT !.BonusEth =
            (@ * remainingBalance) \div totalConsensusBonus]],
     minipoolInfos |-> [a \in DOMAIN mi |->
        IF mi[a].MinipoolBonus = Nil THEN mi[a]
        ELSE [mi[a] EXCEPT !.MinipoolBonus =
            Some((@[1] * remainingBalance) \div totalConsensusBonus)]]]

\* totalNodeOpShare
totalNodeOpShareOf(sc) ==
    ((smoothingPoolBalance * sc.totalScore) \div sc.attestationCount)
        \div oneEth

\* the minipool infos after the loop over the scored minipools
minipoolInfosOf(mps, totalNodeOpShare, totalScore) ==
    [a \in {mps[k].Address : k \in DOMAIN mps} |->
        LET mp == CHOOSE m \in Range(mps) : m.Address = a
        IN [Address |-> a,
            NodeAddress |-> mp.NodeAddress,
            AttestationScore |-> mp.AttestationScore,
            AttestationCount |-> mp.AttestationCount,
            MissingAttestationSlots |-> mp.MissingAttestationSlots,
            IsEligibleForBonuses |-> mp.IsEligibleForBonuses,
            ConsensusIncome |-> Some(mp.ConsensusIncome),
            NodeOperatorBond |->
                networkState.MinipoolDetails[a].NodeDepositBalance,
            MinipoolShare |->
                (totalNodeOpShare * mp.AttestationScore) \div totalScore,
            MinipoolBonus |-> Nil,
            TotalFee |-> Nil]]

\* the addresses of the minipools of node n, in the order of the list mps
minipoolsOfNode(mps, n) ==
    LET own == SelectSeq(mps, LAMBDA m : m.NodeAddress = n)
    IN [k \in DOMAIN own |-> own[k].Address]

\* r.nodeDetails after the loop over the scored minipools
nodeDetailsOf(mps, mi, cheats) ==
    [n \in {mps[k].NodeAddress : k \in DOMAIN mps} |->
        [Address |-> networkState.NodeDetails[n].NodeAddress,
         IsEligible |-> n \notin cheats,
         Minipools |-> minipoolsOfNode(mps, n),
         SmoothingPoolEth |->
            SumOver([a \in DOMAIN mi |-> mi[a].MinipoolShare],
                    {a \in DOMAIN mi : mi[a].NodeAddress = n}),
         BonusEth |-> 0,
         RewardsNetwork |-> networkState.NodeDetails[n].RewardNetwork]]

\* variant: the bonuses are awarded to the nodes but not added to the node
\* operators' total
checkAndAwardBonusUncounted(nd, mi, totalEthForMinipools, totalNodeOpShare, bonusScalar, award) ==
    IF Abs(totalEthForMinipools - totalNodeOpShare) > epsilon
    THEN [kind |-> "error", err |-> "error calculating smoothing pool ETH"]
    ELSE [kind |-> "ok",
          poolStakerETH |-> smoothingPoolBalance - (totalEthForMinipools +
              IF award
              THEN SumOver([n \in DOMAIN nd |-> nd[n].BonusEth], DOMAIN nd)
              ELSE 0),
          nodeOpEth |-> totalEthForMinipools,
          bonusScalar |-> bonusScalar,
          nodeDetails |-> [n \in DOMAIN nd |->
              [nd[n] EXCEPT !.SmoothingPoolEth =
                  IF award THEN @ + nd[n].BonusEth ELSE @]],
          minipoolInfos |-> mi]

\* the sanity check of the base shares, the award of the bonuses and the
\* amounts calculateNodeRewards returns
checkAndAward(nd, mi, totalEthForMinipools, totalNodeOpShare, bonusScalar, award) ==
    IF Abs(totalEthForMinipools - totalNodeOpShare) > epsilon
    THEN [kind |-> "error", err |-> "error calculating smoothing pool ETH"]
    ELSE [kind |-> "ok",
          poolStakerETH |-> smoothingPoolBalance - (totalEthForMinipools +
              IF award
              THEN SumOver([n \in DOMAIN nd |-> nd[n].BonusEth], DOMAIN nd)
              ELSE 0),
          nodeOpEth |-> totalEthForMinipools +
              IF award
              THEN SumOver([n \in DOMAIN nd |-> nd[n].BonusEth], DOMAIN nd)
              ELSE 0,
          bonusScalar |-> bonusScalar,
          nodeDetails |-> [n \in DOMAIN nd |->
              [nd[n] EXCEPT !.SmoothingPoolEth =
                  IF award THEN @ + nd[n].BonusEth ELSE @]],
          minipoolInfos |-> mi]

scaledToRewards(scaled, totalEthForMinipools, totalNodeOpShare) ==
    IF scaled.panic THEN [kind |-> "panic"]
    ELSE checkAndAward(scaled.nodeDetails, scaled.minipoolInfos,
                       totalEthForMinipools, totalNodeOpShare,
                       scaled.bonusScalar, TRUE)

\* variant: the bonuses are awarded in full whatever the balance left
bonusesToRewardsUnscaled(bon, totalEthForMinipools, totalNodeOpShare) ==
    IF bon.err
    THEN [kind |-> "error", err |-> "fee greater than 14%"]
    ELSE checkAndAward(bon.nodeDetails, bon.minipoolInfos,
                       totalEthForMinipools, totalNodeOpShare, oneEth, TRUE)

\* the ruleset v10 part: bon is what calculateNodeBonuses returned
bonusesToRewards(bon, totalEthForMinipools, totalNodeOpShare) ==
    IF bon.err
    THEN [kind |-> "error", err |-> "fee greater than 14%"]
    ELSE IF smoothingPoolBalance - totalEthForMinipools
                < bon.totalConsensusBonus
    THEN scaledToRewards(
             scaleBonuses(bon.nodeDetails, bon.minipoolInfos,
                          smoothingPoolBalance - totalEthForMinipools,
                          bon.totalConsensusBonus),
             totalEthForMinipools, totalNodeOpShare)
    ELSE checkAndAward(bon.nodeDetails, bon.minipoolInfos,
                       totalEthForMinipools, totalNodeOpShare, oneEth, TRUE)

detailsToRewards(nd, mi, totalNodeOpShare) ==
    IF rewardsFile.RulesetVersion >= 10
    THEN bonusesToRewards(calculateNodeBonuses(nd, mi),
             SumOver([a \in DOMAIN mi |-> mi[a].MinipoolShare], DOMAIN mi),
             totalNodeOpShare)
    ELSE checkAndAward(nd, mi,
             SumOver([a \in DOMAIN mi |-> mi[a].MinipoolShare], DOMAIN mi),
             totalNodeOpShare, oneEth, FALSE)

sharesToRewards(mps, mi, cheats, totalNodeOpShare) ==
    detailsToRewards(nodeDetailsOf(mps, mi, cheats), mi, totalNodeOpShare)

\* variant: without scores the pool stakers are credited nothing
scoresToRewardsNothingToStakers(sc, cheats) ==
    IF sc.totalScore = 0 \/ sc.attestationCount = 0
    THEN [kind |-> "ok", poolStakerETH |-> 0,
          nodeOpEth |-> 0, bonusScalar |-> oneEth,
          nodeDetails |-> nodeDetails, minipoolInfos |-> minipoolInfos]
    ELSE sharesToRewards(sc.minipools,
             minipoolInfosOf(sc.minipools, totalNodeOpShareOf(sc),
                             sc.totalScore),
             cheats, totalNodeOpShareOf(sc))

scoresToRewards(sc, cheats) ==
    IF sc.totalScore = 0 \/ sc.attestationCount = 0
    THEN [kind |-> "ok", poolStakerETH |-> smoothingPoolBalance,
          nodeOpEth |-> 0, bonusScalar |-> oneEth,
          nodeDetails |-> nodeDetails, minipoolInfos |-> minipoolInfos]
    ELSE sharesToRewards(sc.minipools,
             minipoolInfosOf(sc.minipools, totalNodeOpShareOf(sc),
                             sc.totalScore),
             cheats, totalNodeOpShareOf(sc))

\* calculateNodeRewards with the cheater set cheats
calculateNodeRewards(cheats) == scoresToRewards(GetScores(cheats), cheats)

\* ---------------------------------------------------- calculateEthRewards
\* r.snapshotEnd
SnapshotEnd == [ConsensusBlock |-> 9, ExecutionBlock |-> 8]

\* where the caller of calculateEthRewards continues
AfterEthRewards ==
    IF entry = "generateTree" THEN "materialize" ELSE "approximateReturn"

\* variant: only a zero balance skips the smoothing pool, the interval
\* index is not looked at
CalculateEthRewardsIgnoringIndex ==
    /\ pc = "calculateEthRewards"
    /\ smoothingPoolBalance' = networkState.NetworkDetails.SmoothingPoolBalance
    /\ IF networkState.NetworkDetails.SmoothingPoolBalance = 0
       THEN /\ pc' = AfterEthRewards
            /\ UNCHANGED <<rewardsFile, minipoolPerformanceFile, result, err>>
       ELSE LET beaconBlock == bc.GetBeaconBlock
                file1 == [rewardsFile EXCEPT
                             !.ConsensusStartBlock = rollingRecord.StartSlot]
                perf1 == [minipoolPerformanceFile EXCEPT
                             !.ConsensusStartBlock = rollingRecord.StartSlot]
                file2 == [file1 EXCEPT !.ExecutionStartBlock =
                             beaconBlock.ExecutionBlockNumber]
                perf2 == [perf1 EXCEPT !.ExecutionStartBlock =
                             beaconBlock.ExecutionBlockNumber]
            IN IF beaconBlock.status = "error"
               THEN /\ Fail("error verifying block from interval start")
                    /\ rewardsFile' = file1
                    /\ minipoolPerformanceFile' = perf1
               ELSE IF beaconBlock.status = "missing"
               THEN /\ Fail("couldn't retrieve CL block from interval start")
                    /\ rewardsFile' = file1
                    /\ minipoolPerformanceFile' = perf1
               ELSE IF rp.HeaderByNumber = "error"
               THEN /\ Fail("error getting EL header")
                    /\ rewardsFile' = file2
                    /\ minipoolPerformanceFile' = perf2
               ELSE /\ rewardsFile' = [file2 EXCEPT
                         !.ConsensusEndBlock = SnapshotEnd.ConsensusBlock,
                         !.ExecutionEndBlock = SnapshotEnd.ExecutionBlock]
                    /\ minipoolPerformanceFile' = [perf2 EXCEPT
                         !.ConsensusEndBlock = SnapshotEnd.ConsensusBlock,
                         !.ExecutionEndBlock = SnapshotEnd.ExecutionBlock]
                    /\ pc' = "getCheaters"
                    /\ UNCHANGED <<result, err>>
    /\ UNCHANGED <<inputs, accum, netState, epsilon, nodeDetails,
                   minipoolInfos, cheaters, poolStakerETH, nodeOpEth,
                   pDaoRewards, entry, i, visited, previousResult>>

\* calculateEthRewards up to its call of calculateNodeRewards, with
\* getBlocksAndTimesForInterval
CalculateEthRewards ==
    /\ pc = "calculateEthRewards"
    /\ smoothingPoolBalance' = networkState.NetworkDetails.SmoothingPoolBalance
    /\ IF \/ networkState.NetworkDetails.SmoothingPoolBalance = 0
          \/ rewardsFile.Index = 0
       THEN /\ pc' = AfterEthRewards
            /\ UNCHANGED <<rewardsFile, minipoolPerformanceFile, result, err>>
       ELSE LET beaconBlock == bc.GetBeaconBlock
                file1 == [rewardsFile EXCEPT
                             !.ConsensusStartBlock = rollingRecord.StartSlot]
                perf1 == [minipoolPerformanceFile EXCEPT
                             !.ConsensusStartBlock = rollingRecord.StartSlot]
                file2 == [file1 EXCEPT !.ExecutionStartBlock =
                             beaconBlock.ExecutionBlockNumber]
                perf2 == [perf1 EXCEPT !.ExecutionStartBlock =
                             beaconBlock.ExecutionBlockNumber]
            IN IF beaconBlock.status = "error"
               THEN /\ Fail("error verifying block from interval start")
                    /\ rewardsFile' = file1
                    /\ minipoolPerformanceFile' = perf1
               ELSE IF beaconBlock.status = "missing"
               THEN /\ Fail("couldn't retrieve CL block from interval start")
                    /\ rewardsFile' = file1
                    /\ minipoolPerformanceFile' = perf1
               ELSE IF rp.HeaderByNumber = "error"
               THEN /\ Fail("error getting EL header")
                    /\ rewardsFile' = file2
                    /\ minipoolPerformanceFile' = perf2
               ELSE /\ rewardsFile' = [file2 EXCEPT
                         !.ConsensusEndBlock = SnapshotEnd.ConsensusBlock,
                         !.ExecutionEndBlock = SnapshotEnd.ExecutionBlock]
                    /\ minipoolPerformanceFile' = [perf2 EXCEPT
                         !.ConsensusEndBlock = SnapshotEnd.ConsensusBlock,
                         !.ExecutionEndBlock = SnapshotEnd.ExecutionBlock]
                    /\ pc' = "getCheaters"
                    /\ UNCHANGED <<result, err>>
    /\ UNCHANGED <<inputs, accum, netState, epsilon, nodeDetails,
                   minipoolInfos, cheaters, poolStakerETH, nodeOpEth,
                   pDaoRewards, entry, i, visited, previousResult>>

\* the call of getCheaters that opens calculateNodeRewards
GetCheaters ==
    /\ pc = "getCheaters"
    /\ cheaters' = getCheaters(networkState)
    /\ pc' = "calculateNodeRewards"
    /\ UNCHANGED <<inputs, rewardsFile, accum, netState, epsilon,
                   smoothingPoolBalance, nodeDetails, minipoolInfos,
                   minipoolPerformanceFile, poolStakerETH, nodeOpEth,
                   pDaoRewards, entry, i, visited, result, err,
                   previousResult>>

\* the rest of calculateNodeRewards, and calculateEthRewards up to its loop
CalculateNodeRewards ==
    /\ pc = "calculateNodeRewards"
    /\ LET r == calculateNodeRewards(cheaters)
       IN IF r.kind = "error"
          THEN /\ Fail(r.err)
               /\ UNCHANGED <<nodeDetails, minipoolInfos, poolStakerETH,
                              nodeOpEth, minipoolPerformanceFile, visited>>
          ELSE IF r.kind = "panic"
          THEN /\ pc' = "panic"
               /\ UNCHANGED <<nodeDetails, minipoolInfos, poolStakerETH,
                              nodeOpEth, minipoolPerformanceFile, visited,
                              result, err>>
          ELSE /\ nodeDetails' = r.nodeDetails
               /\ minipoolInfos' = r.minipoolInfos
               /\ poolStakerETH' = r.poolStakerETH
               /\ nodeOpEth' = r.nodeOpEth
               /\ minipoolPerformanceFile' =
                     IF rewardsFile.RulesetVersion >= 10
                     THEN [minipoolPerformanceFile EXCEPT
                              !.BonusScalar = Some(r.bonusScalar)]
                     ELSE minipoolPerformanceFile
               /\ visited' = {}
               /\ pc' = "ethLoop"
               /\ UNCHANGED <<result, err>>
    /\ UNCHANGED <<inputs, rewardsFile, accum, netState, epsilon,
                   smoothingPoolBalance, cheaters, pDaoRewards, entry, i,
                   previousResult>>

\* the orders in which a Go map iteration can visit the keys in S
IterationOrders(S) ==
    {p \in [1..Cardinality(S) -> S] :
        \A a, b \in DOMAIN p : p[a] = p[b] => a = b}

\* the performance records the loop over nodeInfo.Minipools writes, given
\* the order slotOrder[a] in which the missing slots of minipool a are read
performanceRecords(nodeInfo, slotOrder) ==
    LET reported == {a \in Range(nodeInfo.Minipools) :
            minipoolInfos[a].AttestationCount
                + Cardinality(minipoolInfos[a].MissingAttestationSlots) # 0}
    IN [a \in reported \cup DOMAIN minipoolPerformanceFile.MinipoolPerformance
        |-> IF a \in reported
            THEN [SuccessfulAttestations |-> minipoolInfos[a].AttestationCount,
                  MissedAttestations |->
                      Cardinality(minipoolInfos[a].MissingAttestationSlots),
                  AttestationScore |-> minipoolInfos[a].AttestationScore,
                  EthEarned |-> minipoolInfos[a].MinipoolShare,
                  BonusEthEarned |-> minipoolInfos[a].MinipoolBonus,
                  ConsensusIncome |-> minipoolInfos[a].ConsensusIncome,
                  EffectiveCommission |-> minipoolInfos[a].TotalFee,
                  MissingAttestationSlots |-> slotOrder[a]]
            ELSE minipoolPerformanceFile.MinipoolPerformance[a]]

SlotOrders(nodeInfo) ==
    LET mps == Range(nodeInfo.Minipools)
    IN {f \in [mps -> UNION {IterationOrders(
                    minipoolInfos[a].MissingAttestationSlots) : a \in mps}] :
           \A a \in mps :
               f[a] \in IterationOrders(minipoolInfos[a].MissingAttestationSlots)}

\* one iteration of the loop over r.nodeDetails: any node not yet visited
EthContribution ==
    /\ pc = "ethLoop"
    /\ \E nodeAddress \in DOMAIN nodeDetails \ visited :
        LET nodeInfo == nodeDetails[nodeAddress]
        IN IF nodeInfo.SmoothingPoolEth > 0
           THEN /\ SetNetState(NetStateAfter(nodeAddress,
                                             nodeInfo.RewardsNetwork))
                /\ IF NodeEntryFails(nodeAddress, nodeInfo.RewardsNetwork)
                   THEN /\ Fail("GetNetworkEnabled")
                        /\ UNCHANGED <<accum, minipoolPerformanceFile,
                                       visited>>
                   ELSE /\ SetAccum(AccumAfter(nodeAddress,
                               nodeInfo.RewardsNetwork, "SmoothingPoolEth",
                               nodeInfo.SmoothingPoolEth))
                        /\ \E slotOrder \in SlotOrders(nodeInfo) :
                             minipoolPerformanceFile' =
                               [minipoolPerformanceFile EXCEPT
                                 !.MinipoolPerformance =
                                   performanceRecords(nodeInfo, slotOrder)]
                        /\ visited' = visited \cup {nodeAddress}
                        /\ UNCHANGED <<pc, err, result>>
           ELSE /\ visited' = visited \cup {nodeAddress}
                /\ UNCHANGED <<accum, netState, minipoolPerformanceFile,
                               pc, err, result>>
    /\ UNCHANGED <<inputs, rewardsFile, epsilon, smoothingPoolBalance,
                   nodeDetails, minipoolInfos, cheaters, poolStakerETH,
                   nodeOpEth, pDaoRewards, entry, i, previousResult>>

\* the totals calculateEthRewards records after its loop
EthTotals ==
    /\ pc = "ethLoop"
    /\ visited = DOMAIN nodeDetails
    /\ rewardsFile' = [rewardsFile EXCEPT
          !.TotalRewards.PoolStakerSmoothingPoolEth = poolStakerETH,
          !.TotalRewards.NodeOperatorSmoothingPoolEth = nodeOpEth,
          !.TotalRewards.TotalSmoothingPoolEth = smoothingPoolBalance]
    /\ pc' = AfterEthRewards
    /\ UNCHANGED <<inputs, accum, netState, epsilon, ethState, pDaoRewards,
                   entry, i, visited, result, err, previousResult>>

\* ------------------------------------------- lists, Merkle tree, result
\* ascending order of the field key (insertion sort)
RECURSIVE sortBy(_, _)
sortBy(seq, key) ==
    IF seq = << >> THEN << >>
    ELSE LET rest == sortBy(Tail(seq), key)
             x == Head(seq)
         IN SelectSeq(rest, LAMBDA e : e[key] <= x[key])
                \o <<x>>
                \o SelectSeq(rest, LAMBDA e : e[key] > x[key])

\* variant: the tree is built over the lists in the order they were appended
GenerateMerkleTreeUnsorted(file) ==
    [file EXCEPT
        !.MerkleRoot = [k \in DOMAIN file.NodeRewards |->
            <<file.NodeRewards[k].Address, file.NodeRewards[k].Network,
              file.NodeRewards[k].CollateralRpl
                  + file.NodeRewards[k].OracleDaoRpl,
              file.NodeRewards[k].SmoothingPoolEth>>]]

\* rewardsFile.GenerateMerkleTree: puts both lists in their canonical order
\* and commits to the ordered leaves.  The root stands for the hash of the
\* leaf sequence: equal roots exactly for equal leaf sequences.
GenerateMerkleTree(file) ==
    LET nodes == sortBy(file.NodeRewards, "Address")
        networks == sortBy(file.NetworkRewards, "Network")
    IN [file EXCEPT
           !.NodeRewards = nodes,
           !.NetworkRewards = networks,
           !.MerkleRoot = [k \in DOMAIN nodes |->
               <<nodes[k].Address, nodes[k].Network,
                 nodes[k].CollateralRpl + nodes[k].OracleDaoRpl,
                 nodes[k].SmoothingPoolEth>>]]

\* the two loops that append the map entries to the lists of the file, in
\* the iteration orders nodeOrder and networkOrder
assignLists(file, nodeOrder, networkOrder) ==
    [file EXCEPT
        !.NodeRewards = @ \o [k \in DOMAIN nodeOrder |->
                                 [nodeRewards[nodeOrder[k]] EXCEPT
                                     !.Address = nodeOrder[k]]],
        !.NetworkRewards = @ \o [k \in DOMAIN networkOrder |->
                                 [networkRewards[networkOrder[k]] EXCEPT
                                     !.Network = networkOrder[k]]]]

\* the sort of the missed attestation slots of every performance record
sortSlots(perf) ==
    [perf EXCEPT !.MinipoolPerformance =
        [a \in DOMAIN @ |->
            [@[a] EXCEPT !.MissingAttestationSlots =
                LET asRecords == [k \in DOMAIN @ |-> [slot |-> @[k]]]
                    sorted == sortBy(asRecords, "slot")
                IN [k \in DOMAIN sorted |-> sorted[k].slot]]]]

\* the end of generateTree: lists, Merkle tree, sorted slots, result
Materialize ==
    /\ pc = "materialize"
    /\ \E nodeOrder \in IterationOrders(DOMAIN nodeRewards),
          networkOrder \in IterationOrders(DOMAIN networkRewards) :
        LET file == GenerateMerkleTree(
                        assignLists(rewardsFile, nodeOrder, networkOrder))
            perf == sortSlots(minipoolPerformanceFile)
        IN /\ rewardsFile' = file
           /\ minipoolPerformanceFile' = perf
           /\ result' = <<[RewardsFile |-> file,
                           InvalidNetworkNodes |-> invalidNetworkNodes,
                           MinipoolPerformanceFile |-> perf]>>
    /\ pc' = "done"
    /\ UNCHANGED <<inputs, accum, netState, epsilon, smoothingPoolBalance,
                   nodeDetails, minipoolInfos, cheaters, poolStakerETH,
                   nodeOpEth, pDaoRewards, entry, i, visited, err,
                   previousResult>>

\* ------------------------------- approximateStakerShareOfSmoothingPool
\* variant: the tolerance of the sanity checks is left at zero
ApproximateStakerShareWithoutEpsilon ==
    /\ pc = "new"
    /\ entry' = "approximateStakerShareOfSmoothingPool"
    /\ validNetworkCache' = (0 :> TRUE)
    /\ epsilon' = 0
    /\ pc' = "calculateEthRewards"
    /\ UNCHANGED <<inputs, rewardsFile, ethState, accum, pDaoRewards, i,
                   visited, result, err, networkEnabledQueries,
                   validateNetworkReturns, previousResult>>

ApproximateStakerShareOfSmoothingPool ==
    /\ pc = "new"
    /\ entry' = "approximateStakerShareOfSmoothingPool"
    /\ validNetworkCache' = (0 :> TRUE)
    /\ epsilon' = IF Len(networkState.NodeDetails)
                        > Len(networkState.MinipoolDetails)
                  THEN Len(networkState.NodeDetails)
                  ELSE Len(networkState.MinipoolDetails)
    /\ pc' = "calculateEthRewards"
    /\ UNCHANGED <<inputs, rewardsFile, ethState, accum, pDaoRewards, i,
                   visited, result, err, networkEnabledQueries,
                   validateNetworkReturns, previousResult>>

ApproximateReturn ==
    /\ pc = "approximateReturn"
    /\ result' = <<[PoolStakerSmoothingPoolEth |->
                       rewardsFile.TotalRewards.PoolStakerSmoothingPoolEth]>>
    /\ pc' = "done"
    /\ UNCHANGED <<inputs, rewardsFile, accum, netState, epsilon, ethState,
                   pDaoRewards, entry, i, visited, err, previousResult>>

\* ------------------------------------------------ construction and Init
\* newTreeGeneratorImpl_v9_v10_rolling: the fields of a new generator
NewRewardsFile(index, rulesetVersion) ==
    [RewardsFileVersion |-> 3,
     RulesetVersion |-> rulesetVersion,
     Index |-> index,
     TotalRewards |-> ZeroTotalRewards,
     NetworkRewards |-> << >>,
     NodeRewards |-> << >>,
     MerkleRoot |-> << >>,
     ConsensusStartBlock |-> 0, ExecutionStartBlock |-> 0,
     ConsensusEndBlock |-> 0, ExecutionEndBlock |-> 0]

NewGenerator(index, rulesetVersion) ==
    /\ rewardsFile = NewRewardsFile(index, rulesetVersion)
    /\ minipoolPerformanceFile =
          [Index |-> index, MinipoolPerformance |-> EmptyMap,
           BonusScalar |-> Nil,
           ConsensusStartBlock |-> 0, ExecutionStartBlock |-> 0,
           ConsensusEndBlock |-> 0, ExecutionEndBlock |-> 0]
    /\ validNetworkCache = EmptyMap
    /\ epsilon = 0
    /\ smoothingPoolBalance = 0
    /\ nodeDetails = EmptyMap
    /\ minipoolInfos = EmptyMap
    /\ invalidNetworkNodes = EmptyMap
    /\ nodeRewards = EmptyMap
    /\ networkRewards = EmptyMap
    /\ pDaoRewards = 0
    /\ cheaters = {}
    /\ poolStakerETH = 0
    /\ nodeOpEth = 0
    /\ pc = "new"
    /\ entry = "none"
    /\ i = 0
    /\ visited = {}
    /\ result = << >>
    /\ err = ""
    /\ networkEnabledQueries = [n \in Networks |-> 0]
    /\ validateNetworkReturns = [n \in Networks |-> {}]

\* A second generator is built on the same inputs after a successful
\* generateTree; what the first one returned is kept for comparison.
NewRun ==
    /\ pc = "done"
    /\ entry = "generateTree"
    /\ previousResult = << >>
    /\ previousResult' = result
    /\ rewardsFile' = NewRewardsFile(rewardsFile.Index,
                                     rewardsFile.RulesetVersion)
    /\ minipoolPerformanceFile' =
          [Index |-> rewardsFile.Index, MinipoolPerformance |-> EmptyMap,
           BonusScalar |-> Nil,
           ConsensusStartBlock |-> 0, ExecutionStartBlock |-> 0,
           ConsensusEndBlock |-> 0, ExecutionEndBlock |-> 0]
    /\ validNetworkCache' = EmptyMap
    /\ epsilon' = 0
    /\ smoothingPoolBalance' = 0
    /\ nodeDetails' = EmptyMap
    /\ minipoolInfos' = EmptyMap
    /\ invalidNetworkNodes' = EmptyMap
    /\ nodeRewards' = EmptyMap
    /\ networkRewards' = EmptyMap
    /\ pDaoRewards' = 0
    /\ cheaters' = {}
    /\ poolStakerETH' = 0
    /\ nodeOpEth' = 0
    /\ pc' = "new"
    /\ entry' = "none"
    /\ i' = 0
    /\ visited' = {}
    /\ result' = << >>
    /\ err' = ""
    /\ networkEnabledQueries' = [n \in Networks |-> 0]
    /\ validateNetworkReturns' = [n \in Networks |-> {}]
    /\ UNCHANGED inputs

\* ---------------------------------------------------------------- inputs
MaxWeight == 2
MaxPenaltyCount == 3

\* the percentages of the pending RPL for the treasury, the node operators
\* and the oDAO (fixed point, summing to oneEth)
Percents == <<30, 50, 20>>
AnswerChoices == <<"enabled", "disabled", "error">>
BeaconOk == [status |-> "ok", ExecutionBlockNumber |-> 6]
BeaconChoices == {BeaconOk,
                  [status |-> "missing", ExecutionBlockNumber |-> 0],
                  [status |-> "error", ExecutionBlockNumber |-> 0]}
\* per minipool of the rolling record: score, successful attestations,
\* missed slots (score at most oneEth per successful attestation)
Attested == [AttestationScore |-> 90, AttestationCount |-> 1,
             MissingAttestationSlots |-> {7, 3}]
Perfect == [AttestationScore |-> 200, AttestationCount |-> 2,
            MissingAttestationSlots |-> {}]
Partial == [AttestationScore |-> 90, AttestationCount |-> 1,
            MissingAttestationSlots |-> {}]
Idle == [AttestationScore |-> 0, AttestationCount |-> 0,
         MissingAttestationSlots |-> {}]
Missed == [AttestationScore |-> 0, AttestationCount |-> 0,
           MissingAttestationSlots |-> {5}]

RECURSIVE setToSeq(_)
setToSeq(S) ==
    IF S = {} THEN << >>
    ELSE LET x == CHOOSE y \in S : \A z \in S : y <= z
         IN <<x>> \o setToSeq(S \ {x})

\* assignments of the values of the sequence vals to the members of D: the
\* values taken in turn from some offset (Rotations), or that or the same
\* value for all (Profiles)
Rotations(D, vals) ==
    {[x \in D |-> vals[((x + k) % Len(vals)) + 1]] : k \in DOMAIN vals}

Profiles(D, vals) ==
    {[x \in D |-> vals[j]] : j \in DOMAIN vals} \cup Rotations(D, vals)

\* the oDAO members: a set of nodes, each with a join time
ODaoChoices(joinedTimes) ==
    {[m \in members |-> t[m]] :
        members \in SUBSET Nodes,
        t \in {[n \in Nodes |-> joinedTimes[1]],
               [n \in Nodes |-> joinedTimes[(n % Len(joinedTimes)) + 1]]}}

\* minipool m of the snapshot belongs to node Owner(m) unless Init chooses
RoundRobinOwner == [m \in Minipools |-> ((m - 1) % NumNodes) + 1]

TypeOK == pc \in {"new", "calculateRplRewards", "collateralLoop", "oDaoLoop",
                  "calculateEthRewards", "getCheaters",
                  "calculateNodeRewards", "ethLoop", "materialize",
                  "approximateReturn", "done", "error", "panic"}

InitInputs(networks, weights, odao, pending, balance, owner, penalty, fee, perfs, eligible, income, borrowed, answers, beacon, header) ==
    /\ networkState =
         [NodeDetails |-> [n \in Nodes |->
              [NodeAddress |-> n,
               RewardNetwork |-> networks[n],
               PercentOfBorrowedEth |-> borrowed]],
          MinipoolDetails |-> [m \in Minipools |->
              [Address |-> m,
               NodeAddress |-> owner[m],
               PenaltyCount |-> penalty[m],
               NodeFee |-> fee[m],
               NodeDepositBalance |-> 8 * oneEth]],
          OracleDaoMemberDetails |->
              LET members == setToSeq(DOMAIN odao)
              IN [k \in DOMAIN members |->
                     [Address |-> members[k],
                      JoinedTime |-> odao[members[k]]]],
          NodeWeights |-> weights,
          TotalNodeWeight |-> SumOver(weights, Nodes),
          NetworkDetails |->
              [PendingRPLRewards |-> pending,
               ProtocolDaoRewardsPercent |-> Percents[1],
               NodeOperatorRewardsPercent |-> Percents[2],
               TrustedNodeOperatorRewardsPercent |-> Percents[3],
               SmoothingPoolBalance |-> balance]]
    /\ rollingRecord =
         [StartSlot |-> 4,
          Minipools |-> [m \in Minipools |->
              [Address |-> m,
               NodeAddress |-> owner[m],
               AttestationScore |-> perfs[m].AttestationScore,
               AttestationCount |-> perfs[m].AttestationCount,
               MissingAttestationSlots |-> perfs[m].MissingAttestationSlots,
               ConsensusIncome |-> income[m],
               IsEligibleForBonuses |-> eligible[m]]]]
    /\ rp = [GetNetworkEnabled |-> answers, HeaderByNumber |-> header]
    /\ bc = [GetBeaconBlock |-> beacon]

Answers ==
    {[n \in Networks |-> IF n = 0 THEN "enabled" ELSE a[n]] :
        a \in Profiles(1..MaxNetwork, AnswerChoices)}

\* The RPL allocation in full: reward networks, client answers, node
\* weights, oDAO membership and the pending amount vary; the smoothing pool
\* is empty or shared by minipools that all attested, none missing a slot.
Init ==
    /\ \E networks \in Profiles(Nodes, setToSeq(Networks)),
          weights \in Rotations(Nodes, setToSeq(0..MaxWeight))
                         \cup {[n \in Nodes |-> 0]},
          odao \in ODaoChoices(<<0, 4>>),
          pending \in {0, 17},
          balance \in {0, 1000},
          answers \in Answers :
        InitInputs(networks, weights, odao, pending, balance,
                   RoundRobinOwner, [m \in Minipools |-> 2],
                   [m \in Minipools |-> 5],
                   [m \in Minipools |-> IF m = 1 THEN Perfect ELSE Partial],
                   [m \in Minipools |-> TRUE],
                   [m \in Minipools |-> 10 * oneEth], 5 * oneEth,
                   answers, BeaconOk, "ok")
    /\ NewGenerator(1, 10)
    /\ previousResult = << >>

\* The smoothing pool in full: minipool owners, penalty counts, attestation
\* records, ruleset and interval index vary; the RPL side is one oDAO
\* member and nodes with or without weight.
InitEth ==
    /\ \E owner \in Profiles(Minipools, setToSeq(Nodes)),
          penalty \in Profiles(Minipools, setToSeq(2..MaxPenaltyCount)),
          perfs \in Profiles(Minipools, <<Attested, Perfect, Idle>>),
          weights \in Profiles(Nodes, <<0, 1>>),
          balance \in {0, 1000} :
        InitInputs([n \in Nodes |-> n % (MaxNetwork + 1)], weights,
                   (1 :> 0), 17, balance, owner, penalty,
                   [m \in Minipools |-> 5], perfs,
                   [m \in Minipools |-> TRUE],
                   [m \in Minipools |-> 10 * oneEth], 5 * oneEth,
                   [n \in Networks |-> "enabled"], BeaconOk, "ok")
    /\ \E index \in {0, 1}, rulesetVersion \in {9, 10} :
        NewGenerator(index, rulesetVersion)
    /\ previousResult = << >>

\* The fatal conditions: pending amount, client answers and oDAO
\* membership (none, a full-time member, a member who joined in the
\* snapshot block) vary.
InitErr ==
    /\ \E networks \in [Nodes -> Networks],
          odao \in {EmptyMap, (1 :> 0), (1 :> SnapshotTime)},
          pending \in {0, 17},
          answers \in Answers,
          beacon \in BeaconChoices,
          header \in {"ok", "error"} :
        InitInputs(networks, [n \in Nodes |-> 1], odao, pending, 1000,
                   RoundRobinOwner, [m \in Minipools |-> 2],
                   [m \in Minipools |-> 5],
                   [m \in Minipools |-> Attested],
                   [m \in Minipools |-> TRUE],
                   [m \in Minipools |-> 10 * oneEth], 5 * oneEth,
                   answers, beacon, header)
    /\ NewGenerator(1, 10)
    /\ previousResult = << >>

\* The bonuses of ruleset v10: base fees below, between and at the fee
\* floor, minipools eligible for bonuses or not, consensus incomes and
\* borrowed percentages that make the bonuses fit the remaining balance or
\* exceed it, minipools that attested or only missed.
InitBonus ==
    /\ \E owner \in {RoundRobinOwner, [m \in Minipools |-> 1]},
          fee \in Rotations(Minipools, <<5, 8, 12>>)
                     \cup {[m \in Minipools |-> 5]},
          eligible \in Rotations(Minipools, <<TRUE, FALSE>>)
                          \cup {[m \in Minipools |-> TRUE]},
          income \in Rotations(Minipools, <<10 * oneEth, 30 * oneEth>>)
                        \cup {[m \in Minipools |-> 10 * oneEth]},
          perfs \in Rotations(Minipools, <<Partial, Perfect, Missed>>)
                       \cup {[m \in Minipools |-> Partial]},
          borrowed \in {0, 5 * oneEth, 10 * oneEth},
          balance \in {1000, 1003} :
        InitInputs([n \in Nodes |-> n % (MaxNetwork + 1)],
                   [n \in Nodes |-> 1], (1 :> 0), 17, balance, owner,
                   [m \in Minipools |-> 2], fee, perfs, eligible, income,
                   borrowed, [n \in Networks |-> "enabled"], BeaconOk, "ok")
    /\ \E rulesetVersion \in {9, 10} : NewGenerator(1, rulesetVersion)
    /\ previousResult = << >>

Next ==
    \/ GenerateTree
    \/ CalculateRplRewards
    \/ CollateralContribution
    \/ CollateralSanityCheck
    \/ ODaoContribution
    \/ ODaoSanityCheck
    \/ CalculateEthRewards
    \/ GetCheaters
    \/ CalculateNodeRewards
    \/ EthContribution
    \/ EthTotals
    \/ Materialize
    \/ ApproximateStakerShareOfSmoothingPool
    \/ ApproximateReturn
    \/ NewRun

Spec == Init /\ [][Next]_vars

SpecEth == InitEth /\ [][Next]_vars

SpecBonus == InitBonus /\ [][Next]_vars

SpecErr == InitErr /\ [][Next]_vars

\* ================================================================ claims
Finished == pc = "done" /\ entry = "generateTree"

Totals == rewardsFile.TotalRewards

RewardFields == {"CollateralRpl", "OracleDaoRpl", "SmoothingPoolEth"}

\* the positions of a generateTree run after calculateRplRewards returned
AfterRpl == {"calculateEthRewards", "getCheaters", "calculateNodeRewards",
             "ethLoop", "materialize", "done"}

\* C1: in every generateTree run that completes without error, also
\* with a total node weight of zero, ProtocolDaoRpl + TotalCollateralRpl +
\* TotalOracleDaoRpl equals the pending RPL rewards exactly.
C1_RplConservation ==
    Finished =>
        Totals.ProtocolDaoRpl + Totals.TotalCollateralRpl
            + Totals.TotalOracleDaoRpl = PendingRewards

\* C2: after every contribution, for each reward field, the sum over the
\* network entries equals the sum over the node entries; at the end of a
\* successful run the network sums of CollateralRpl and OracleDaoRpl are the
\* recorded totals.
C2_NetworkSumsMatchNodeSums ==
    /\ \A f \in RewardFields :
          FieldSum(networkRewards, f) = FieldSum(nodeRewards, f)
    /\ Finished =>
          /\ FieldSum(networkRewards, "CollateralRpl")
                = Totals.TotalCollateralRpl
          /\ FieldSum(networkRewards, "OracleDaoRpl")
                = Totals.TotalOracleDaoRpl

\* a finished run that credited all three fields, over two networks
C2_Witness ==
    /\ Finished
    /\ Cardinality(DOMAIN networkRewards) >= 2
    /\ Cardinality(DOMAIN nodeRewards) >= 2
    /\ \A f \in RewardFields : FieldSum(nodeRewards, f) > 0

\* C3: a second generateTree run on the same inputs returns the same
\* ordered node rewards, the same ordered network rewards and the same
\* Merkle root as the first, whatever orders the maps were iterated in.
C3_SameInputsSameArtifact ==
    (Finished /\ previousResult # << >>) =>
        /\ result[1].RewardsFile.NodeRewards
              = previousResult[1].RewardsFile.NodeRewards
        /\ result[1].RewardsFile.NetworkRewards
              = previousResult[1].RewardsFile.NetworkRewards
        /\ result[1].RewardsFile.MerkleRoot
              = previousResult[1].RewardsFile.MerkleRoot

\* a second run has finished, with two node entries and two network entries
C3_Witness ==
    /\ Finished
    /\ previousResult # << >>
    /\ Len(result[1].RewardsFile.NodeRewards) >= 2
    /\ Len(result[1].RewardsFile.NetworkRewards) >= 2

\* epsilon as the snapshot defines it
Eps ==
    IF Len(networkState.NodeDetails) > Len(networkState.MinipoolDetails)
    THEN Len(networkState.NodeDetails)
    ELSE Len(networkState.MinipoolDetails)

\* the nodes owning a minipool with three or more penalties
PenalisedNodes ==
    {n \in Nodes : \E m \in Minipools :
        /\ networkState.MinipoolDetails[m].NodeAddress = n
        /\ networkState.MinipoolDetails[m].PenaltyCount >= 3}

CollateralDelta ==
    Abs(TotalNodeRewards - FieldSum(nodeRewards, "CollateralRpl"))

ODaoDelta == Abs(TotalODaoRewards - FieldSum(nodeRewards, "OracleDaoRpl"))

BaseShareDelta ==
    Abs(totalNodeOpShareOf(GetScores(PenalisedNodes))
        - SumOver([a \in DOMAIN minipoolInfos |->
                      minipoolInfos[a].MinipoolShare], DOMAIN minipoolInfos))

CollateralSplitDone ==
    /\ entry = "generateTree"
    /\ pc \in {"oDaoLoop"} \cup AfterRpl
    /\ networkState.TotalNodeWeight > 0

ODaoSplitDone == entry = "generateTree" /\ pc \in AfterRpl

BaseSplitDone ==
    /\ pc \in {"ethLoop", "materialize", "approximateReturn", "done"}
    /\ DOMAIN minipoolInfos # {}

\* C4: a fatal condition makes the run return an error and no result, and
\* no step runs after the failing one.
C4_AllOrNothing ==
    /\ pc = "error" => result = << >> /\ err # "" /\ ~ENABLED Next
    /\ result # << >> => pc = "done" /\ err = ""
    /\ (entry = "generateTree" /\ PendingRewards = 0)
          => pc \in {"calculateRplRewards", "error"}
    /\ (/\ entry # "none"
        /\ networkState.NetworkDetails.SmoothingPoolBalance # 0
        /\ rewardsFile.Index # 0
        /\ bc.GetBeaconBlock.status # "ok" \/ rp.HeaderByNumber = "error")
          => pc \notin {"getCheaters", "calculateNodeRewards", "ethLoop",
                        "materialize", "approximateReturn", "done"}
    /\ (\E id \in Networks : /\ rp.GetNetworkEnabled[id] = "error"
                             /\ networkEnabledQueries[id] > 0)
          => pc = "error"
    /\ CollateralSplitDone => CollateralDelta <= Eps
    /\ ODaoSplitDone => ODaoDelta <= Eps
    /\ BaseSplitDone => BaseShareDelta <= Eps
    /\ \A a \in DOMAIN minipoolInfos :
          minipoolInfos[a].TotalFee # Nil
              => minipoolInfos[a].TotalFee[1] <= fourteenPercentEth

\* the run failed on the beacon block after the RPL allocation had credited
\* nodes
C4_Witness ==
    /\ pc = "error"
    /\ err = "couldn't retrieve CL block from interval start"
    /\ DOMAIN nodeRewards # {}
    /\ rewardsFile.TotalRewards.TotalOracleDaoRpl > 0

\* C5: past each sanity check, the budget of the split and the sum of the
\* amounts assigned differ by at most epsilon = max(node count, minipool
\* count); a larger difference ends the run in an error.
C5_EpsilonBound ==
    /\ CollateralSplitDone => CollateralDelta <= Eps
    /\ ODaoSplitDone => ODaoDelta <= Eps
    /\ BaseSplitDone => BaseShareDelta <= Eps
    /\ Eps = epsilon \/ pc = "new"

\* a finished run in which all three splits lost something to truncation
C5_Witness ==
    /\ Finished
    /\ CollateralSplitDone /\ CollateralDelta > 0
    /\ ODaoDelta > 0
    /\ BaseSplitDone /\ BaseShareDelta > 0

\* C6: a node whose reward network is not enabled has its entry on network
\* 0, is recorded in invalidNetworkNodes with the network it asked for, and
\* keeps its amounts, which are credited to network entry 0.  Every entry's
\* network was reported valid, and only entries on network 0 are recorded
\* as invalid.
C6_InvalidNetworkRedirect ==
    /\ \A n \in DOMAIN nodeRewards :
          LET req == networkState.NodeDetails[n].RewardNetwork
              net == nodeRewards[n].Network
          IN /\ net = 0 \/ (net = req /\ TRUE \in validateNetworkReturns[net])
             /\ net \in DOMAIN networkRewards
             /\ rp.GetNetworkEnabled[req] = "disabled" =>
                   /\ net = 0
                   /\ n \in DOMAIN invalidNetworkNodes
                   /\ invalidNetworkNodes[n] = req
    /\ \A n \in DOMAIN invalidNetworkNodes :
          /\ n \in DOMAIN nodeRewards
          /\ nodeRewards[n].Network = 0
    /\ \A layer \in DOMAIN networkRewards, f \in RewardFields :
          networkRewards[layer][f] =
              SumOver([n \in DOMAIN nodeRewards |-> nodeRewards[n][f]],
                      {n \in DOMAIN nodeRewards :
                          nodeRewards[n].Network = layer})
    /\ CollateralSplitDone =>
          \A n \in Nodes :
              LET amount == calculateNodeRplRewards(TotalNodeRewards,
                                networkState.NodeWeights[n],
                                networkState.TotalNodeWeight)
              IN (/\ amount > 0
                  /\ rp.GetNetworkEnabled[
                         networkState.NodeDetails[n].RewardNetwork]
                       = "disabled")
                 => /\ n \in DOMAIN nodeRewards
                    /\ nodeRewards[n].CollateralRpl = amount
    /\ pc \in {"materialize", "done"} =>
          \A n \in DOMAIN nodeDetails :
              nodeDetails[n].SmoothingPoolEth > 0 =>
                  /\ n \in DOMAIN nodeRewards
                  /\ nodeRewards[n].SmoothingPoolEth
                        = nodeDetails[n].SmoothingPoolEth

\* a finished run with a redirected node that earned all three rewards
C6_Witness ==
    /\ Finished
    /\ \E n \in DOMAIN invalidNetworkNodes :
          /\ invalidNetworkNodes[n] # 0
          /\ \A f \in RewardFields : nodeRewards[n][f] > 0
          /\ \A f \in RewardFields : networkRewards[0][f] >= nodeRewards[n][f]

\* C7: at most one GetNetworkEnabled query per network id, none for id 0,
\* which is always valid; every call for an id returns the same boolean; a
\* query that returns an error ends the run with that error and leaves the
\* id out of the cache.
C7_NetworkValidityCache ==
    /\ \A id \in Networks :
          /\ networkEnabledQueries[id] <= 1
          /\ Cardinality(validateNetworkReturns[id]) <= 1
          /\ rp.GetNetworkEnabled[id] = "error" =>
                /\ id \notin DOMAIN validNetworkCache
                /\ networkEnabledQueries[id] = 1 =>
                      pc = "error" /\ err = "GetNetworkEnabled"
          /\ (id # 0 /\ id \in DOMAIN validNetworkCache) =>
                /\ networkEnabledQueries[id] = 1
                /\ validNetworkCache[id]
                      = (rp.GetNetworkEnabled[id] = "enabled")
                /\ validateNetworkReturns[id] = {validNetworkCache[id]}
    /\ networkEnabledQueries[0] = 0
    /\ validateNetworkReturns[0] \subseteq {TRUE}
    /\ pc # "new" => (0 \in DOMAIN validNetworkCache /\ validNetworkCache[0])

\* two nodes were given entries through the same network id, which is not
\* enabled, and the id was queried once
C7_Witness ==
    \E id \in Networks \ {0} :
        /\ rp.GetNetworkEnabled[id] = "disabled"
        /\ networkEnabledQueries[id] = 1
        /\ Cardinality({n \in DOMAIN nodeRewards :
               networkState.NodeDetails[n].RewardNetwork = id}) >= 2

\* C8: getCheaters returns exactly the nodes that own a minipool whose
\* penalty count is three or more, and changes nothing else.
C8_GetCheatersExactAndPure ==
    [][pc = "getCheaters" =>
          /\ cheaters' = PenalisedNodes
          /\ UNCHANGED <<inputs, rewardsFile, accum, netState, epsilon,
                         smoothingPoolBalance, nodeDetails, minipoolInfos,
                         minipoolPerformanceFile, poolStakerETH, nodeOpEth,
                         pDaoRewards, entry, i, visited, result, err,
                         previousResult>>]_vars

\* getCheaters has returned a node that owns a minipool below the threshold
\* next to one at it, and has left out a node without penalised minipools
C8_Witness ==
    /\ pc = "calculateNodeRewards"
    /\ \E n \in cheaters : \E m \in Minipools :
          /\ networkState.MinipoolDetails[m].NodeAddress = n
          /\ networkState.MinipoolDetails[m].PenaltyCount < 3
    /\ Nodes \ cheaters # {}

\* C9: a node that owns a minipool with three or more penalties is not in
\* the eligible set, none of its minipools gets a share, a bonus or a
\* performance record, and its SmoothingPoolEth is zero.
C9_CheatersOutOfSmoothingPool ==
    \A n \in PenalisedNodes :
        /\ n \notin DOMAIN nodeDetails
        /\ \A a \in DOMAIN minipoolInfos : minipoolInfos[a].NodeAddress # n
        /\ \A a \in DOMAIN minipoolPerformanceFile.MinipoolPerformance :
              networkState.MinipoolDetails[a].NodeAddress # n
        /\ n \in DOMAIN nodeRewards => nodeRewards[n].SmoothingPoolEth = 0
        /\ Finished =>
              \A k \in DOMAIN result[1].RewardsFile.NodeRewards :
                  result[1].RewardsFile.NodeRewards[k].Address = n =>
                      result[1].RewardsFile.NodeRewards[k].SmoothingPoolEth = 0

\* a finished run in which a penalised node with an attesting minipool has
\* an entry while another node was paid from the smoothing pool
C9_Witness ==
    /\ Finished
    /\ \E n \in PenalisedNodes :
          /\ n \in DOMAIN nodeRewards
          /\ \E k \in DOMAIN rollingRecord.Minipools :
                /\ rollingRecord.Minipools[k].NodeAddress = n
                /\ rollingRecord.Minipools[k].AttestationScore > 0
    /\ \E n \in DOMAIN nodeRewards : nodeRewards[n].SmoothingPoolEth > 0

FeeFloors == 0..(20 * oneEth) \div 100

\* C11: a minipool with a bonus has a TotalFee that is the fee floor of its
\* node, strictly above its base fee and at most 14%.  For any fee floor,
\* the loop body of calculateNodeBonuses gives a bonus only with a floor
\* above the base fee and at most 14%, and with a floor above 14% and
\* above the base fee of an eligible minipool it gives the error.
C11_BonusFeeCap ==
    /\ \A a \in DOMAIN minipoolInfos :
          minipoolInfos[a].MinipoolBonus # Nil =>
              /\ minipoolInfos[a].TotalFee # Nil
              /\ minipoolInfos[a].TotalFee[1]
                    > networkState.MinipoolDetails[a].NodeFee
              /\ minipoolInfos[a].TotalFee[1] <= fourteenPercentEth
              /\ minipoolInfos[a].TotalFee[1] = feeWithBonus(
                    networkState.NodeDetails[minipoolInfos[a].NodeAddress]
                        .PercentOfBorrowedEth)
    /\ \A k \in DOMAIN rollingRecord.Minipools, floor \in FeeFloors :
          LET mp == rollingRecord.Minipools[k]
              mpi == networkState.MinipoolDetails[mp.Address]
              out == bonusAgainstFloor(
                         [IsEligibleForBonuses |-> mp.IsEligibleForBonuses,
                          ConsensusIncome |-> Some(mp.ConsensusIncome)],
                         mpi, floor)
          IN /\ out.kind = "bonus" =>
                   /\ out.TotalFee = floor
                   /\ floor > mpi.NodeFee
                   /\ floor <= fourteenPercentEth
             /\ (/\ mp.IsEligibleForBonuses
                 /\ floor > mpi.NodeFee
                 /\ floor > fourteenPercentEth) => out.kind = "error"

\* a minipool was given a positive bonus with a TotalFee of exactly 14%
C11_Witness ==
    /\ pc \in {"ethLoop", "materialize", "done"}
    /\ \E a \in DOMAIN minipoolInfos :
          /\ minipoolInfos[a].MinipoolBonus # Nil
          /\ minipoolInfos[a].MinipoolBonus[1] > 0
          /\ minipoolInfos[a].TotalFee = Some(fourteenPercentEth)

\* the scores, base shares and unscaled bonuses of the run, recomputed from
\* the inputs
Scores == GetScores(PenalisedNodes)

BaseInfos ==
    minipoolInfosOf(Scores.minipools, totalNodeOpShareOf(Scores),
                    Scores.totalScore)

UnscaledBonuses ==
    calculateNodeBonuses(
        nodeDetailsOf(Scores.minipools, BaseInfos, PenalisedNodes), BaseInfos)

RemainingBalance ==
    smoothingPoolBalance
        - SumOver([a \in DOMAIN BaseInfos |-> BaseInfos[a].MinipoolShare],
                  DOMAIN BaseInfos)

\* calculateNodeRewards has returned the amounts of a ruleset v10 split
BonusesSettled ==
    /\ pc \in {"ethLoop", "materialize", "approximateReturn", "done"}
    /\ DOMAIN minipoolInfos # {}
    /\ rewardsFile.RulesetVersion >= 10

BonusesScaled ==
    BonusesSettled /\ RemainingBalance < UnscaledBonuses.totalConsensusBonus

\* C12: when the balance left after the base shares is below the total
\* bonus, the bonus scalar is floor(remaining * oneEth / total), every node
\* bonus and minipool bonus is floor(bonus * remaining / total), and the
\* node bonuses sum to at most the remaining balance; otherwise the scalar
\* is oneEth and every bonus is as calculateNodeBonuses computed it.
C12_BonusScaling ==
    /\ BonusesScaled =>
          /\ minipoolPerformanceFile.BonusScalar =
                Some((RemainingBalance * oneEth)
                        \div UnscaledBonuses.totalConsensusBonus)
          /\ \A n \in DOMAIN nodeDetails :
                nodeDetails[n].BonusEth =
                    (UnscaledBonuses.nodeDetails[n].BonusEth * RemainingBalance)
                        \div UnscaledBonuses.totalConsensusBonus
          /\ \A a \in DOMAIN minipoolInfos :
                UnscaledBonuses.minipoolInfos[a].MinipoolBonus # Nil =>
                    minipoolInfos[a].MinipoolBonus =
                        Some((UnscaledBonuses.minipoolInfos[a].MinipoolBonus[1]
                                  * RemainingBalance)
                             \div UnscaledBonuses.totalConsensusBonus)
          /\ SumOver([n \in DOMAIN nodeDetails |-> nodeDetails[n].BonusEth],
                     DOMAIN nodeDetails) <= RemainingBalance
    /\ (BonusesSettled /\ ~BonusesScaled) =>
          /\ minipoolPerformanceFile.BonusScalar = Some(oneEth)
          /\ \A n \in DOMAIN nodeDetails :
                nodeDetails[n].BonusEth
                    = UnscaledBonuses.nodeDetails[n].BonusEth
          /\ \A a \in DOMAIN minipoolInfos :
                minipoolInfos[a].MinipoolBonus
                    = UnscaledBonuses.minipoolInfos[a].MinipoolBonus

\* a run finished with scaled bonuses, one of which differs from what the
\* rounded scalar would give
C12_Witness ==
    /\ Finished
    /\ BonusesScaled
    /\ \E n \in DOMAIN nodeDetails :
          /\ nodeDetails[n].BonusEth > 0
          /\ nodeDetails[n].BonusEth #
                (UnscaledBonuses.nodeDetails[n].BonusEth
                    * minipoolPerformanceFile.BonusScalar[1]) \div oneEth

\* C13: a remaining balance below the total bonus is never a failure:
\* calculateNodeRewards of a ruleset v10 run that has to scale the bonuses
\* returns its amounts, whatever mix of minipools with and without a
\* bonus value it holds.
C13_InsufficiencyNeverFails ==
    [][(/\ pc = "calculateNodeRewards"
        /\ rewardsFile.RulesetVersion >= 10
        /\ GetScores(cheaters).totalScore # 0
        /\ GetScores(cheaters).attestationCount # 0
        /\ RemainingBalance < UnscaledBonuses.totalConsensusBonus)
       => pc' = "ethLoop"]_vars

\* the scaling loop has met a minipool without a bonus value
C13_ScalingPanics ==
    /\ pc = "panic"
    /\ cheaters = PenalisedNodes
    /\ rewardsFile.RulesetVersion >= 10
    /\ RemainingBalance < UnscaledBonuses.totalConsensusBonus
    /\ \E a \in DOMAIN UnscaledBonuses.minipoolInfos :
          UnscaledBonuses.minipoolInfos[a].MinipoolBonus = Nil
    /\ \E a \in DOMAIN UnscaledBonuses.minipoolInfos :
          UnscaledBonuses.minipoolInfos[a].MinipoolBonus # Nil

\* the smoothing pool is skipped: no balance, or interval index 0
SmoothingPoolSkipped ==
    \/ networkState.NetworkDetails.SmoothingPoolBalance = 0
    \/ rewardsFile.Index = 0

\* C14: with a smoothing pool balance of 0 or an interval index of 0,
\* calculateEthRewards returns to its caller without error and without
\* asking anything (block, header, scores, network validity), changes no
\* node entry, network entry or performance record, and leaves the RPL
\* amounts and the three smoothing-pool totals (all zero) as they are.
C14_SkipIsNoOp ==
    /\ [][(pc = "calculateEthRewards" /\ SmoothingPoolSkipped)
            => /\ pc' = AfterEthRewards
               /\ UNCHANGED <<inputs, rewardsFile, accum, netState,
                              minipoolPerformanceFile, nodeDetails,
                              minipoolInfos, cheaters, poolStakerETH,
                              nodeOpEth, pDaoRewards, result, err>>]_vars
    /\ [](/\ SmoothingPoolSkipped
          /\ pc \in {"calculateEthRewards", "materialize",
                     "approximateReturn", "done"}
          => /\ Totals.PoolStakerSmoothingPoolEth = 0
             /\ Totals.NodeOperatorSmoothingPoolEth = 0
             /\ Totals.TotalSmoothingPoolEth = 0
             /\ minipoolPerformanceFile.MinipoolPerformance = << >>
             /\ rewardsFile.ConsensusStartBlock = 0
             /\ \A n \in DOMAIN nodeRewards :
                   nodeRewards[n].SmoothingPoolEth = 0
             /\ \A n \in DOMAIN networkRewards :
                   networkRewards[n].SmoothingPoolEth = 0)

\* a run for interval 0 with a filled smoothing pool has finished, and its
\* RPL amounts are in the artifact
C14_Witness ==
    /\ Finished
    /\ rewardsFile.Index = 0
    /\ networkState.NetworkDetails.SmoothingPoolBalance > 0
    /\ \E k \in DOMAIN rollingRecord.Minipools :
          rollingRecord.Minipools[k].AttestationScore > 0
    /\ \E n \in DOMAIN nodeRewards : nodeRewards[n].CollateralRpl > 0

\* the smoothing pool is allocated, and no minipool outside the cheaters'
\* has a score or a successful attestation
NothingScored ==
    /\ ~SmoothingPoolSkipped
    /\ Scores.totalScore = 0 \/ Scores.attestationCount = 0

\* C15: with a balance and an index other than 0 and a total score or
\* attestation count of 0 (every scoring node a cheater, say), the ETH
\* allocation does not fail: the whole balance goes to the pool stakers,
\* the node operators' total is 0, and no node or network entry receives
\* smoothing-pool ETH.
C15_NothingScoredAllToStakers ==
    /\ [][(NothingScored /\ pc \in {"calculateNodeRewards", "ethLoop"})
            => pc' \in {"ethLoop", "materialize", "approximateReturn"}]_vars
    /\ [](NothingScored =>
            /\ pc \in {"ethLoop", "materialize", "approximateReturn", "done"}
                  => /\ poolStakerETH = smoothingPoolBalance
                     /\ smoothingPoolBalance =
                          networkState.NetworkDetails.SmoothingPoolBalance
                     /\ nodeOpEth = 0
            /\ pc \in {"materialize", "approximateReturn", "done"}
                  => /\ Totals.PoolStakerSmoothingPoolEth =
                          networkState.NetworkDetails.SmoothingPoolBalance
                     /\ Totals.NodeOperatorSmoothingPoolEth = 0
            /\ \A n \in DOMAIN nodeRewards :
                  nodeRewards[n].SmoothingPoolEth = 0
            /\ \A n \in DOMAIN networkRewards :
                  networkRewards[n].SmoothingPoolEth = 0
            /\ Finished =>
                  \A k \in DOMAIN rewardsFile.NodeRewards :
                      rewardsFile.NodeRewards[k].SmoothingPoolEth = 0)

\* a run has finished in which every minipool of the record has a score
\* and every node owning one is a cheater
C15_Witness ==
    /\ Finished
    /\ NothingScored
    /\ \A k \in DOMAIN rollingRecord.Minipools :
          /\ rollingRecord.Minipools[k].AttestationScore > 0
          /\ rollingRecord.Minipools[k].NodeAddress \in PenalisedNodes
    /\ Totals.PoolStakerSmoothingPoolEth > 0

\* the smoothing-pool ETH credited to node n
NodeSmoothingPoolEth(n) ==
    IF n \in DOMAIN nodeRewards THEN nodeRewards[n].SmoothingPoolEth ELSE 0

\* C16: in a finished run that allocated the smoothing pool, the pool
\* stakers' and the node operators' totals add up to the recorded total,
\* which is the balance; the node operators' total is the sum of the node
\* entries' and of the network entries' smoothing-pool ETH; and each node's
\* amount is the sum of its minipools' base shares plus its bonus.
C16_EthConservation ==
    (Finished /\ ~SmoothingPoolSkipped) =>
        /\ Totals.PoolStakerSmoothingPoolEth
              + Totals.NodeOperatorSmoothingPoolEth
              = Totals.TotalSmoothingPoolEth
        /\ Totals.TotalSmoothingPoolEth
              = networkState.NetworkDetails.SmoothingPoolBalance
        /\ Totals.NodeOperatorSmoothingPoolEth
              = SumOver([n \in DOMAIN nodeRewards |->
                            nodeRewards[n].SmoothingPoolEth],
                        DOMAIN nodeRewards)
        /\ Totals.NodeOperatorSmoothingPoolEth
              = SumOver([n \in DOMAIN networkRewards |->
                            networkRewards[n].SmoothingPoolEth],
                        DOMAIN networkRewards)
        /\ Totals.NodeOperatorSmoothingPoolEth
              = seqFieldSum(rewardsFile.NodeRewards, "SmoothingPoolEth", 1)
        /\ \A n \in DOMAIN nodeDetails :
              NodeSmoothingPoolEth(n)
                  = SumOver([a \in DOMAIN BaseInfos |->
                                BaseInfos[a].MinipoolShare],
                            {a \in DOMAIN BaseInfos :
                                BaseInfos[a].NodeAddress = n})
                    + nodeDetails[n].BonusEth

\* a run has finished with a bonus awarded, ETH for the pool stakers and
\* ETH credited on two networks
C16_Witness ==
    /\ Finished
    /\ ~SmoothingPoolSkipped
    /\ \E n \in DOMAIN nodeDetails : nodeDetails[n].BonusEth > 0
    /\ Totals.PoolStakerSmoothingPoolEth > 0
    /\ \E a, b \in DOMAIN networkRewards :
          /\ a # b
          /\ networkRewards[a].SmoothingPoolEth > 0
          /\ networkRewards[b].SmoothingPoolEth > 0

\* C17: with non-negative inputs and a total score of at most
\* attestation count * oneEth, the pool stakers' share calculateNodeRewards
\* returns is never negative, and neither is the total recorded from it.
C17_PoolStakerShareNonNegative ==
    (/\ pc \in {"ethLoop", "materialize", "approximateReturn", "done"}
     /\ smoothingPoolBalance >= 0
     /\ Scores.totalScore <= Scores.attestationCount * oneEth)
    => /\ poolStakerETH >= 0
       /\ Totals.PoolStakerSmoothingPoolEth >= 0

\* calculateNodeRewards has returned after scaling bonuses that exceeded
\* the balance left, and nothing is left for the pool stakers
C17_Witness ==
    /\ pc = "ethLoop"
    /\ BonusesScaled
    /\ \E n \in DOMAIN nodeDetails : nodeDetails[n].BonusEth > 0
    /\ poolStakerETH <= 1

\* C18: a node entry exists only for a node that earned something: of
\* CollateralRpl, OracleDaoRpl and SmoothingPoolEth, every node entry has
\* at least one above zero.
C18_NoEmptyNodeEntry ==
    \A n \in DOMAIN nodeRewards :
        \/ nodeRewards[n].CollateralRpl > 0
        \/ nodeRewards[n].OracleDaoRpl > 0
        \/ nodeRewards[n].SmoothingPoolEth > 0

\* a finished run lists a node with nothing in any of the three amounts
C18_EmptyNodeEntryListed ==
    /\ Finished
    /\ \E k \in DOMAIN rewardsFile.NodeRewards :
          /\ rewardsFile.NodeRewards[k].CollateralRpl = 0
          /\ rewardsFile.NodeRewards[k].OracleDaoRpl = 0
          /\ rewardsFile.NodeRewards[k].SmoothingPoolEth = 0

\* C19: after an ETH allocation with a total score other than zero, the
\* performance report holds a record for every contributing minipool with
\* at least one attestation, successful or missed, also when its node
\* earned no ETH, and none for a minipool without attestations.
C19_EveryAttestingMinipoolReported ==
    (/\ pc \in {"materialize", "approximateReturn", "done"}
     /\ ~SmoothingPoolSkipped
     /\ ~NothingScored)
    => \A a \in DOMAIN minipoolInfos :
          a \in DOMAIN minipoolPerformanceFile.MinipoolPerformance
          <=> minipoolInfos[a].AttestationCount
                + Cardinality(minipoolInfos[a].MissingAttestationSlots) >= 1

\* a finished run reports nothing for a contributing minipool that missed
\* an attestation, its node having earned no ETH
C19_AttestingMinipoolUnreported ==
    /\ Finished
    /\ ~SmoothingPoolSkipped
    /\ ~NothingScored
    /\ \E a \in DOMAIN minipoolInfos :
          /\ minipoolInfos[a].MissingAttestationSlots # {}
          /\ nodeDetails[minipoolInfos[a].NodeAddress].SmoothingPoolEth = 0
          /\ a \notin DOMAIN minipoolPerformanceFile.MinipoolPerformance

\* an approximation run on the inputs of a generateTree run that succeeded
ApproximatingAfterTree ==
    entry = "approximateStakerShareOfSmoothingPool" /\ previousResult # << >>

\* C20: approximateStakerShareOfSmoothingPool returns exactly the
\* PoolStakerSmoothingPoolEth that a successful generateTree on the same
\* inputs records; it does not fail where generateTree succeeded.
C20_ApproximationIsExact ==
    ApproximatingAfterTree =>
        /\ pc \notin {"error", "panic"}
        /\ pc = "done" =>
              result[1].PoolStakerSmoothingPoolEth =
                  previousResult[1].RewardsFile.TotalRewards
                      .PoolStakerSmoothingPoolEth

\* an approximation has returned a share that generateTree had reached
\* with floored base shares and awarded bonuses
C20_Witness ==
    /\ ApproximatingAfterTree
    /\ pc = "done"
    /\ result[1].PoolStakerSmoothingPoolEth > 0
    /\ \E n \in DOMAIN nodeDetails : nodeDetails[n].BonusEth > 0
    /\ totalNodeOpShareOf(Scores)
          > SumOver([a \in DOMAIN minipoolInfos |->
                        minipoolInfos[a].MinipoolShare], DOMAIN minipoolInfos)

====
